---- MODULE Spec2Model ----
(***************************************************************************)
(* Task lifecycle and asynchronous resize pipeline of the image resizing   *)
(* API: TasksService (create / findOne / updateTaskStatus), TasksProcessor *)
(* (processTask / processImage), the file utilities they call, and the     *)
(* Task and Image collections they share.                                  *)
(*                                                                         *)
(* One action is one uninterrupted stretch of a handler: the code between  *)
(* two awaits, together with the store or file operation the first await   *)
(* waits for.                                                              *)
(***************************************************************************)
EXTENDS Integers, Sequences, FiniteSets, TLC

VARIABLES
    tasks,      \* Task collection: id -> document
    images,     \* Image collection: documents in insertion order
    fs,         \* source files on disk: path -> content ("absent" when missing)
    outFiles,   \* derivative files on disk: full path -> width of the image in pixels
    dirs,       \* output directories that exist
    calls,      \* TasksService.create calls, in call order
    runs,       \* TasksProcessor.processTask invocations, in the order they started
    fsWrites,   \* number of changes made to the source files from outside
    uuids,      \* number of uuidv4() values drawn
    updates,    \* TasksService.updateTaskStatus calls, in call order
    reply       \* what the last findOne or updateTaskStatus call gave its caller

vars == <<tasks, images, fs, outFiles, dirs, calls, runs, fsWrites, uuids, updates, reply>>

----------------------------------------------------------------------------
(* Bounds of the model *)

MaxCalls == 2
MaxFsWrites == 1
MaxDirectCalls == 1
MaxDirectRuns == 1
MaxUpdates == 1
RandomBits == 14

----------------------------------------------------------------------------
(* Constants of the program *)

PENDING == "pending"
COMPLETED == "completed"
FAILED == "failed"
TaskStatus == {PENDING, COMPLETED, FAILED}

Resolutions == <<"1024", "800">>

OutputDir == "/tmp/output"
InputDir == "/tmp/input"

MISSING_PATH == "URL or local image path needed."
TASK_NOT_FOUND == "Task not found"
MALFORMED_URL == "Malformed URL"
INVALID_FILE_EXT == "The path must start with / and have a valid image extension"
INTERNAL_SERVER_ERROR == "Internal server error"
CREATE_FILE_NOT_FOUND == "File not found"
FILE_NOT_FOUND == "File does not exist. Cannot locate file"
DOWNLOAD_FAILED == "Failed to download image: "
SHARP_MISSING == "Input file is missing: "
SHARP_UNSUPPORTED == "Input file contains unsupported image format"
SHARP_WRITE == "unable to open for write"
ENOENT == "ENOENT: no such file or directory, open "
E11000 == "E11000 duplicate key error"
STORE_DOWN == "store operation failed"

----------------------------------------------------------------------------
(* Values *)

\* A message: undefined, null or a string, the string kept as its parts.
Undefined == [tag |-> "undefined", text |-> <<>>]
Null == [tag |-> "null", text |-> <<>>]
Str(parts) == [tag |-> "string", text |-> parts]
IsSet(m) == m.tag = "string"
Contains(m, part) == \E i \in DOMAIN m.text : m.text[i] = part

\* A file path: directory, file name without its extension, extension as written.
NoPath == [dir |-> "", name |-> "", ext |-> ""]
PathStr(p) == IF p = NoPath THEN "" ELSE p.dir \o "/" \o p.name \o p.ext

PathA == [dir |-> "/data", name |-> "a", ext |-> ".jpg"]
PathB == [dir |-> "/data", name |-> "b", ext |-> ".PNG"]
LocalPaths == {PathA, PathB}

\* A file on disk that is no image and does not have an image's extension.
PathC == [dir |-> "/data", name |-> "notes", ext |-> ".txt"]

\* A URL as the client wrote it: text is the string, scheme and ext its parts.
NoUrl == [text |-> "", scheme |-> "", ext |-> ""]
GoodUrl == [text |-> "https://example.com/image.jpg", scheme |-> "https:", ext |-> ".jpg"]
BadUrl == [text |-> "not-a-url", scheme |-> "", ext |-> ""]

UuidNames == <<"uuid-1", "uuid-2", "uuid-3">>
DownloadPaths == {[dir |-> InputDir, name |-> UuidNames[i], ext |-> GoodUrl.ext] : i \in DOMAIN UuidNames}

AllPaths == LocalPaths \cup DownloadPaths \cup {PathC}

\* File contents: two valid images with different bytes, and bytes that are no image.
Absent == "absent"
ImageContents == {"img1", "img2", "img3"}

\* What a download may fetch.
FetchedContents == {Absent, "img3", "corrupt"}
Contents == ImageContents \cup {"corrupt"}

\* An id that the store never hands out.
UnknownId == 0

\* A string that is no ObjectId.
MalformedId == -1
TaskIds == 1..MaxCalls

----------------------------------------------------------------------------
(* File utilities *)

\* String.prototype.toLowerCase on the extensions that occur.
ToLowerCase(s) ==
    CASE s = ".JPG" -> ".jpg"
      [] s = ".JPEG" -> ".jpeg"
      [] s = ".PNG" -> ".png"
      [] s = ".GIF" -> ".gif"
      [] OTHER -> s

\* path.extname: the extension as written.
ExtName(p) == p.ext

\* getFileExtension: the extension in lower case.
getFileExtension(p) == ToLowerCase(ExtName(p))

\* path.basename(p, suffix): the file name, without the suffix when it ends with it.
BaseName(p, suffix) ==
    IF suffix # "" /\ p.ext = suffix /\ p.name # ""
    THEN p.name
    ELSE p.name \o p.ext

\* fs.existsSync
existsSync(disk, p) == p \in DOMAIN disk /\ disk[p] # Absent

\* The MD5 digest of a file's bytes, in hex.
Digest(content) ==
    CASE content = "img1" -> "0cc175b9"
      [] content = "img2" -> "92eb5ffe"
      [] content = "img3" -> "8277e091"
      [] content = "corrupt" -> "4a8a08f0"

\* calculateMD5: the digest of the file as it is on disk now, or the read error.
calculateMD5(disk, p) ==
    IF existsSync(disk, p)
    THEN [ok |-> TRUE, md5 |-> Digest(disk[p]), error |-> Undefined]
    ELSE [ok |-> FALSE, md5 |-> "", error |-> Str(<<ENOENT, PathStr(p)>>)]

\* sharp(path).resize(...).toFile(out): decodes the source and writes the derivative.
sharpToFile(disk, p, writeOk) ==
    IF ~existsSync(disk, p) THEN [ok |-> FALSE, error |-> Str(<<SHARP_MISSING, PathStr(p)>>)]
    ELSE IF disk[p] \notin ImageContents THEN [ok |-> FALSE, error |-> Str(<<SHARP_UNSUPPORTED>>)]
    ELSE IF ~writeOk THEN [ok |-> FALSE, error |-> Str(<<SHARP_WRITE>>)]
    ELSE [ok |-> TRUE, error |-> Undefined]

\* The width in pixels of the images that occur: wider than every resolution,
\* narrower than every resolution, and between the two.
WidthOf(content) ==
    CASE content = "img1" -> 2000
      [] content = "img2" -> 500
      [] content = "img3" -> 900

\* parseInt on the resolution tokens.
ParseInt(resolution) ==
    CASE resolution = "1024" -> 1024
      [] resolution = "800" -> 800

\* resize with the width always set to the target.
ResizedWidthEnlarging(width, target) == target

\* resize({ width, withoutEnlargement: true }): the width of the derivative.
ResizedWidth(width, target) == IF width < target THEN width ELSE target

----------------------------------------------------------------------------
(* processImage: names of one derivative *)

originalFileName(p) == BaseName(p, getFileExtension(p))
outputPath(p, resolution) == OutputDir \o "/" \o originalFileName(p) \o "/" \o resolution
finalFileName(p, md5) == md5 \o getFileExtension(p)
finalPath(p, resolution, md5) == outputPath(p, resolution) \o "/" \o finalFileName(p, md5)
relativePath(p, resolution, md5) ==
    "/output/" \o originalFileName(p) \o "/" \o resolution \o "/" \o finalFileName(p, md5)

----------------------------------------------------------------------------
(* The store *)

\* Model.findById: the document, or null.
Exists(ts, id) == id \in DOMAIN ts

\* taskModel.create with the schema's defaults.
NewTask(price, path) ==
    [status |-> PENDING, price |-> price, originalPath |-> path,
     images |-> <<>>, errorMessage |-> Undefined]

\* InsertTask with the write lost.
InsertTaskLost(ts, doc) == ts

\* taskModel.create: the document is stored under the next id.
InsertTask(ts, doc) == Append(ts, doc)

\* findByIdAndUpdate with the upsert option: a missing document is inserted.
findByIdAndUpdateUpsert(ts, id, update) ==
    IF ~Exists(ts, id) THEN (id :> update) @@ ts
    ELSE [ts EXCEPT ![id] =
            [f \in DOMAIN ts[id] |-> IF f \in DOMAIN update THEN update[f] ELSE ts[id][f]]]

\* findByIdAndUpdate with the document overwritten: fields the update does not
\* name go back to their defaults.
findByIdAndUpdateOverwrite(ts, id, update) ==
    IF ~Exists(ts, id) THEN ts
    ELSE [ts EXCEPT ![id] =
            [f \in DOMAIN ts[id] |->
                IF f \in DOMAIN update THEN update[f] ELSE NewTask(0, NoPath)[f]]]

\* findByIdAndUpdate with a filter on the status: only a PENDING document is updated.
findByIdAndUpdateIfPending(ts, id, update) ==
    IF ~Exists(ts, id) \/ ts[id].status # PENDING THEN ts
    ELSE [ts EXCEPT ![id] =
            [f \in DOMAIN ts[id] |-> IF f \in DOMAIN update THEN update[f] ELSE ts[id][f]]]

\* Model.findByIdAndUpdate(id, update): sets the fields of the update on the
\* document with that id; matches nothing, and inserts nothing, when there is none.
findByIdAndUpdate(ts, id, update) ==
    IF ~Exists(ts, id) THEN ts
    ELSE [ts EXCEPT ![id] =
            [f \in DOMAIN ts[id] |-> IF f \in DOMAIN update THEN update[f] ELSE ts[id][f]]]

\* PathTaken without the index.
PathTakenNever(imgs, path) == FALSE

\* The unique index on Image.path.
PathTaken(imgs, path) == \E i \in DOMAIN imgs : imgs[i].path = path

\* imageModel.create: the collection with the document added, or the index's rejection.
imageCreate(imgs, doc) ==
    IF PathTaken(imgs, doc.path)
    THEN [ok |-> FALSE, images |-> imgs, error |-> Str(<<E11000, doc.path>>)]
    ELSE [ok |-> TRUE, images |-> Append(imgs, doc), error |-> Undefined]

----------------------------------------------------------------------------
(* TasksService.create *)

Dto(url, localPath) == [url |-> url, localPath |-> localPath]
Dtos ==
    {Dto(NoUrl, NoPath), Dto(NoUrl, PathA), Dto(NoUrl, PathB), Dto(NoUrl, PathC),
     Dto(GoodUrl, NoPath), Dto(BadUrl, NoPath), Dto(GoodUrl, PathA)}

\* UrlParses with every string accepted.
UrlParsesAny(url) == TRUE

\* new URL(text) succeeds only on an absolute URL, one with a scheme.
UrlParses(url) == url.scheme # ""

\* An exception: the class that was thrown and its message.
Exception(class, parts) == [class |-> class, message |-> Str(parts)]
NoException == [class |-> "", message |-> Undefined]

\* Math.random() returns a double in [0, 1): here r / RandomScale with
\* RandomScale a power of two, so that the draw, r * 45 / RandomScale and the
\* sum with 5 are doubles without rounding; the draws are the least and the
\* greatest such value. toFixed(2) then rounds the exact value to the nearest
\* cent and takes the larger of two equally near: the price in cents.
RandomScale == 2 ^ RandomBits
RandomDraws == {0, RandomScale - 1}

\* Price without the 5 added.
PriceNoOffset(r) == (2 * (r * 4500) + RandomScale) \div (2 * RandomScale)

Price(r) == (2 * (r * 4500 + 500 * RandomScale) + RandomScale) \div (2 * RandomScale)

NewCall(dto, price, path, pc) ==
    [dto |-> dto, price |-> price, originalPath |-> path, pc |-> pc,
     taskId |-> UnknownId, response |-> <<>>, thrown |-> NoException]

\* Threw with the exception recorded and the call going on to the store.
ThrewAndWentOn(call, exception) == [call EXCEPT !.pc = "persist", !.thrown = exception]

Threw(call, exception) == [call EXCEPT !.pc = "threw", !.thrown = exception]

\* The path create downloads a URL to: the input directory, a fresh uuid, the
\* URL's extension.
DownloadPath(url, n) == [dir |-> InputDir, name |-> UuidNames[n], ext |-> ExtName(url)]

\* create up to its first await: the checks, the price, the source path.
CreateStart(dto, r) ==
    IF dto.url = NoUrl /\ dto.localPath = NoPath
    THEN Threw(NewCall(dto, 0, NoPath, "start"), Exception("Error", <<MISSING_PATH>>))
    ELSE IF dto.url # NoUrl
    THEN IF ~UrlParses(dto.url)
         THEN Threw(NewCall(dto, Price(r), NoPath, "start"),
                    Exception("BadRequestException", <<MALFORMED_URL>>))
         ELSE NewCall(dto, Price(r), DownloadPath(dto.url, uuids + 1), "download")
    ELSE IF ~existsSync(fs, dto.localPath)
         THEN Threw(NewCall(dto, Price(r), dto.localPath, "start"),
                    Exception("Error", <<CREATE_FILE_NOT_FOUND, ": ", PathStr(dto.localPath)>>))
         ELSE NewCall(dto, Price(r), dto.localPath, "persist")

\* The pattern on CreateTaskDto.localPath, /^\/.*\.(jpg|jpeg|png|gif)$/i: every
\* directory that occurs starts with "/", so the extension decides.
ImageExtensions == {".jpg", ".jpeg", ".png", ".gif"}
MatchesLocalPath(p) == ToLowerCase(p.ext) \in ImageExtensions

\* The pipes bootstrap installs on the application: none.
GlobalPipes == {}

\* The request body is validated against the DTO's decorators only by a
\* ValidationPipe.
BoundaryRejects(dto) ==
    /\ "ValidationPipe" \in GlobalPipes
    /\ dto.localPath # NoPath
    /\ ~MatchesLocalPath(dto.localPath)

\* TasksController.create: the body as the pipes let it through, handed to the service.
PostTasks(dto, r) ==
    IF BoundaryRejects(dto)
    THEN Threw(NewCall(dto, 0, NoPath, "start"),
               Exception("BadRequestException", <<INVALID_FILE_EXT>>))
    ELSE CreateStart(dto, r)

CreateCall(dto, r, maxCalls) ==
    /\ Len(calls) < maxCalls
    /\ calls' = Append(calls, PostTasks(dto, r))
    /\ uuids' = IF PostTasks(dto, r).pc = "download" THEN uuids + 1 ELSE uuids
    /\ UNCHANGED <<tasks, images, fs, outFiles, dirs, runs, fsWrites, updates, reply>>

\* downloadImage: the fetched bytes written to the source path, or the fetch's failure.
CreateDownload(c, fetched) ==
    /\ c \in DOMAIN calls
    /\ calls[c].pc = "download"
    /\ IF fetched = Absent
       THEN /\ calls' = [calls EXCEPT ![c] =
                            Threw(@, Exception("Error", <<DOWNLOAD_FAILED, "network">>))]
            /\ fs' = fs
       ELSE /\ calls' = [calls EXCEPT ![c].pc = "persist"]
            /\ fs' = [fs EXCEPT ![calls[c].originalPath] = fetched]
    /\ UNCHANGED <<tasks, images, outFiles, dirs, runs, fsWrites, uuids, updates, reply>>

\* taskModel.create: the PENDING document is in the store.
CreatePersist(c, storeOk) ==
    /\ c \in DOMAIN calls
    /\ calls[c].pc = "persist"
    /\ IF storeOk
       THEN /\ tasks' = InsertTask(tasks, NewTask(calls[c].price, calls[c].originalPath))
            /\ calls' = [calls EXCEPT ![c].pc = "persisted", ![c].taskId = Len(tasks) + 1]
       ELSE /\ tasks' = tasks
            /\ calls' = [calls EXCEPT ![c] = Threw(@, Exception("Error", <<STORE_DOWN>>))]
    /\ UNCHANGED <<images, fs, outFiles, dirs, runs, fsWrites, uuids, updates, reply>>

\* NewRun as if create had waited for the run to end.
NewRunSettled(id, caller) ==
    [taskId |-> id, caller |-> caller, pc |-> "done", originalPath |-> NoPath,
     k |-> 0, md5 |-> "", processedImages |-> <<>>, error |-> Undefined,
     settled |-> "resolved"]

\* A processTask invocation that has not run yet.
NewRun(id, caller) ==
    [taskId |-> id, caller |-> caller, pc |-> "load", originalPath |-> NoPath,
     k |-> 0, md5 |-> "", processedImages |-> <<>>, error |-> Undefined,
     settled |-> "pending"]

\* Dispatch with the call made twice.
DispatchTwice(rs, id) == Append(Append(rs, NewRun(id, "create")), NewRun(id, "create"))

\* Dispatch with the call left out.
DispatchNothing(rs, id) == rs

\* The runs a create may start: processTask is called, not awaited.
Dispatch(rs, id) == Append(rs, NewRun(id, "create"))

\* create after the store answered: the run is started and the response returned.
CreateReturn(c) ==
    /\ c \in DOMAIN calls
    /\ calls[c].pc = "persisted"
    /\ runs' = Dispatch(runs, calls[c].taskId)
    /\ calls' = [calls EXCEPT ![c].pc = "returned",
                    ![c].response = [taskId |-> calls[c].taskId,
                                     status |-> NewTask(calls[c].price, calls[c].originalPath).status,
                                     price |-> calls[c].price]]
    /\ UNCHANGED <<tasks, images, fs, outFiles, dirs, fsWrites, uuids, updates, reply>>

----------------------------------------------------------------------------
(* TasksService.findOne and updateTaskStatus *)

INVALID_TASK_ID == "Invalid task ID"

\* Types.ObjectId.isValid
IsValidObjectId(id) == id >= 0

NoReply == [op |-> "", id |-> UnknownId, thrown |-> NoException, response |-> <<>>]
Returned(op, id, response) ==
    [op |-> op, id |-> id, thrown |-> NoException, response |-> response]
Thrown(op, id, exception) ==
    [op |-> op, id |-> id, thrown |-> exception, response |-> <<>>]

\* TaskResponse with the images included whatever the status.
TaskResponseWithImages(id, task) ==
    [taskId |-> id, status |-> task.status, price |-> task.price, images |-> task.images]

\* TaskResponse with every stored field included whatever the status.
TaskResponseStored(id, task) ==
    [taskId |-> id, status |-> task.status, price |-> task.price,
     images |-> task.images, errorMessage |-> task.errorMessage]

\* The response findOne builds from the stored document.
TaskResponse(id, task) ==
    LET base == [taskId |-> id, status |-> task.status, price |-> task.price]
        withImages == [f \in {"taskId", "status", "price", "images"} |->
                          IF f = "images" THEN task.images ELSE base[f]]
        withError == [f \in {"taskId", "status", "price", "errorMessage"} |->
                          IF f = "errorMessage" THEN task.errorMessage ELSE base[f]]
    IN IF task.status = COMPLETED THEN withImages
       ELSE IF task.status = FAILED THEN withError
       ELSE base

findOne(ts, id) ==
    IF ~IsValidObjectId(id)
    THEN Thrown("findOne", id,
                Exception("NotFoundException", <<INVALID_TASK_ID, ": ", ToString(id)>>))
    ELSE IF ~Exists(ts, id)
    THEN Thrown("findOne", id,
                Exception("NotFoundException", <<TASK_NOT_FOUND, ": ", ToString(id)>>))
    ELSE Returned("findOne", id, TaskResponse(id, ts[id]))

FindOneCall(id) ==
    /\ reply' = findOne(tasks, id)
    /\ UNCHANGED <<tasks, images, fs, outFiles, dirs, calls, runs, fsWrites, uuids, updates>>

----------------------------------------------------------------------------
(* HttpExceptionFilter and the HTTP responses *)

HttpExceptions == {"BadRequestException", "NotFoundException"}

\* HttpException.getStatus
getStatus(exception) ==
    CASE exception.class = "BadRequestException" -> 400
      [] exception.class = "NotFoundException" -> 404

\* HttpError with the message of the exception passed on whatever its class.
HttpErrorOwnMessage(exception) ==
    IF exception.class \in HttpExceptions
    THEN [statusCode |-> getStatus(exception), message |-> exception.message]
    ELSE [statusCode |-> 500, message |-> exception.message]

\* HttpExceptionFilter.catch: the status and message of the error response.
HttpError(exception) ==
    IF exception.class \in HttpExceptions
    THEN [statusCode |-> getStatus(exception), message |-> exception.message]
    ELSE [statusCode |-> 500, message |-> Str(<<INTERNAL_SERVER_ERROR>>)]

\* No response yet: the handler has not finished.
NoHttp == [statusCode |-> 0, message |-> Undefined]

\* POST /api/tasks: 201 with the body create returned, or the filter's response.
PostResponse(call) ==
    IF call.pc = "returned" THEN [statusCode |-> 201, message |-> Undefined]
    ELSE IF call.pc = "threw" THEN HttpError(call.thrown)
    ELSE NoHttp

\* GET /api/tasks/:taskId: 200 with the body findOne returned, or the filter's response.
GetResponse(rep) ==
    IF rep.op # "findOne" THEN NoHttp
    ELSE IF rep.thrown = NoException THEN [statusCode |-> 200, message |-> Undefined]
    ELSE HttpError(rep.thrown)

\* An optional argument: <<>> when it is not passed, <<v>> when it is v.
NotPassed == <<>>
Passed(v) == <<v>>

\* JavaScript truthiness of the optional arguments of updateTaskStatus.
TruthyImages(arg) == arg # NotPassed
TruthyMessage(m) == IsSet(m) /\ m.text # <<>>

\* updateData without the branch for PENDING.
updateDataNoReset(status, imagesArg, errorMessage) ==
    IF TruthyImages(imagesArg) /\ TruthyMessage(errorMessage)
    THEN [status |-> status, images |-> imagesArg[1], errorMessage |-> errorMessage]
    ELSE IF TruthyImages(imagesArg)
    THEN [status |-> status, images |-> imagesArg[1]]
    ELSE IF TruthyMessage(errorMessage)
    THEN [status |-> status, errorMessage |-> errorMessage]
    ELSE [status |-> status]

\* updateData with the status alone.
updateDataStatusOnly(status, imagesArg, errorMessage) == [status |-> status]

\* The update updateTaskStatus sends to the store.
updateData(status, imagesArg, errorMessage) ==
    IF status = PENDING
    THEN [status |-> status, errorMessage |-> Null, images |-> <<>>]
    ELSE IF TruthyImages(imagesArg) /\ TruthyMessage(errorMessage)
    THEN [status |-> status, images |-> imagesArg[1], errorMessage |-> errorMessage]
    ELSE IF TruthyImages(imagesArg)
    THEN [status |-> status, images |-> imagesArg[1]]
    ELSE IF TruthyMessage(errorMessage)
    THEN [status |-> status, errorMessage |-> errorMessage]
    ELSE [status |-> status]

\* Model.findById casts its argument to an ObjectId and throws a CastError on a
\* string that is none; updateTaskStatus does not check the id before.
CAST_ERROR == "Cast to ObjectId failed for value "
CastFails(id) == ~IsValidObjectId(id)

SampleImages == <<[resolution |-> "800", path |-> "/output/x/800/x.jpg"]>>
ImagesArgs == {NotPassed, Passed(<<>>), Passed(SampleImages)}
MessageArgs == {Undefined, Str(<<>>), Str(<<"boom">>)}

\* An updateTaskStatus call that has not been answered by the store yet.
NewUpdate(id, status, imagesArg, errorMessage) ==
    [id |-> id, status |-> status, images |-> imagesArg, errorMessage |-> errorMessage,
     pc |-> "find"]

\* updateTaskStatus up to its first await: findById is sent.
UpdateTaskStatus(id, status, imagesArg, errorMessage) ==
    /\ Len(updates) < MaxUpdates
    /\ updates' = Append(updates, NewUpdate(id, status, imagesArg, errorMessage))
    /\ UNCHANGED <<tasks, images, fs, outFiles, dirs, calls, runs, fsWrites, uuids, reply>>

\* findById answered: the cast error or NotFoundException is thrown, or the
\* update is built and findByIdAndUpdate is sent.
UpdateFind(u) ==
    /\ u \in DOMAIN updates
    /\ updates[u].pc = "find"
    /\ LET id == updates[u].id
       IN IF CastFails(id)
          THEN /\ reply' = Thrown("updateTaskStatus", id,
                      Exception("CastError", <<CAST_ERROR, ToString(id)>>))
               /\ updates' = [updates EXCEPT ![u].pc = "threw"]
          ELSE IF ~Exists(tasks, id)
          THEN /\ reply' = Thrown("updateTaskStatus", id,
                      Exception("NotFoundException", <<TASK_NOT_FOUND, ": ", ToString(id)>>))
               /\ updates' = [updates EXCEPT ![u].pc = "threw"]
          ELSE /\ reply' = reply
               /\ updates' = [updates EXCEPT ![u].pc = "write"]
    /\ UNCHANGED <<tasks, images, fs, outFiles, dirs, calls, runs, fsWrites, uuids>>

\* findByIdAndUpdate answered: the update is in the store and the call returns.
UpdateWrite(u) ==
    /\ u \in DOMAIN updates
    /\ updates[u].pc = "write"
    /\ tasks' = findByIdAndUpdate(tasks, updates[u].id,
                    updateData(updates[u].status, updates[u].images, updates[u].errorMessage))
    /\ reply' = Returned("updateTaskStatus", updates[u].id, <<>>)
    /\ updates' = [updates EXCEPT ![u].pc = "done"]
    /\ UNCHANGED <<images, fs, outFiles, dirs, calls, runs, fsWrites, uuids>>

\* The steps of the updateTaskStatus calls that have started.
UpdateSteps == \E u \in DOMAIN updates : UpdateFind(u) \/ UpdateWrite(u)

----------------------------------------------------------------------------
(* TasksProcessor.processTask and processImage *)

NotFoundMessage(id) == Str(<<TASK_NOT_FOUND, ": ", ToString(id)>>)
FileNotFoundMessage(p) == Str(<<FILE_NOT_FOUND, " ", PathStr(p)>>)

\* A direct call of processTask (the tests, an administrative retry).
DirectRuns == {i \in DOMAIN runs : runs[i].caller = "direct"}

\* StartResolution with the loop begun at the last resolution.
StartResolutionLast(run, k, disk) ==
    [run EXCEPT !.k = Len(Resolutions), !.md5 = Digest("img1"), !.pc = "resize"]

\* processImage up to its first await, for resolution number k: the hash of the
\* source as it is now, then the output directory.
StartResolution(run, k, disk) ==
    LET h == calculateMD5(disk, run.originalPath)
    IN IF h.ok
       THEN [run EXCEPT !.k = k, !.md5 = h.md5, !.pc = "resize"]
       ELSE [run EXCEPT !.k = k, !.error = h.error, !.pc = "fail"]

DirsAfterStart(run, k, disk) ==
    IF calculateMD5(disk, run.originalPath).ok
    THEN dirs \cup {outputPath(run.originalPath, Resolutions[k])}
    ELSE dirs

\* LoadError without the check of the file.
LoadErrorNoFileCheck(ts, disk, id) ==
    IF ~Exists(ts, id) THEN NotFoundMessage(id) ELSE Undefined

\* What the run throws at the head of processTask, if anything.
LoadError(ts, disk, id) ==
    IF ~Exists(ts, id) THEN NotFoundMessage(id)
    ELSE IF ~existsSync(disk, ts[id].originalPath) THEN FileNotFoundMessage(ts[id].originalPath)
    ELSE Undefined

ProcessTaskCall(id, maxDirect) ==
    /\ Cardinality(DirectRuns) < maxDirect
    /\ runs' = Append(runs, NewRun(id, "direct"))
    /\ UNCHANGED <<tasks, images, fs, outFiles, dirs, calls, fsWrites, uuids, updates, reply>>

\* findById answered: the task and file checks, then the first resolution starts.
RunLoad(r, storeOk) ==
    /\ r \in DOMAIN runs
    /\ runs[r].pc = "load"
    /\ LET id == runs[r].taskId
           e == IF storeOk THEN LoadError(tasks, fs, id) ELSE Str(<<STORE_DOWN>>)
       IN IF IsSet(e)
          THEN /\ runs' = [runs EXCEPT ![r].error = e, ![r].pc = "fail"]
               /\ dirs' = dirs
          ELSE LET loaded == [runs[r] EXCEPT !.originalPath = tasks[id].originalPath]
               IN /\ runs' = [runs EXCEPT ![r] = StartResolution(loaded, 1, fs)]
                  /\ dirs' = DirsAfterStart(loaded, 1, fs)
    /\ UNCHANGED <<tasks, images, fs, outFiles, calls, fsWrites, uuids, updates, reply>>

\* sharp finished: the derivative is on disk, or the resolution failed.
RunResize(r, writeOk) ==
    /\ r \in DOMAIN runs
    /\ runs[r].pc = "resize"
    /\ LET run == runs[r]
           out == sharpToFile(fs, run.originalPath, writeOk)
       IN IF out.ok
          THEN /\ outFiles' =
                      (finalPath(run.originalPath, Resolutions[run.k], run.md5) :>
                          ResizedWidth(WidthOf(fs[run.originalPath]),
                                       ParseInt(Resolutions[run.k]))) @@ outFiles
               /\ runs' = [runs EXCEPT ![r].pc = "insert"]
          ELSE /\ outFiles' = outFiles
               /\ runs' = [runs EXCEPT ![r].error = out.error, ![r].pc = "fail"]
    /\ UNCHANGED <<tasks, images, fs, dirs, calls, fsWrites, uuids, updates, reply>>

\* ImageDoc with the task left out.
ImageDocUnowned(run) ==
    [path |-> relativePath(run.originalPath, Resolutions[run.k], run.md5),
     resolution |-> Resolutions[run.k], md5 |-> run.md5, taskId |-> UnknownId]

\* The Image document processImage inserts.
ImageDoc(run) ==
    [path |-> relativePath(run.originalPath, Resolutions[run.k], run.md5),
     resolution |-> Resolutions[run.k], md5 |-> run.md5, taskId |-> run.taskId]

\* The entry processImage returns.
ImageInfo(run) ==
    [resolution |-> Resolutions[run.k],
     path |-> relativePath(run.originalPath, Resolutions[run.k], run.md5)]

\* The loop of processTask after one resolution: the next one, or the final update.
AfterResolution(run, disk) ==
    IF run.k < Len(Resolutions)
    THEN StartResolution(run, run.k + 1, disk)
    ELSE [run EXCEPT !.pc = "complete"]

\* Push with the entry put at the front.
PushFront(run) == [run EXCEPT !.processedImages = <<ImageInfo(run)>> \o @]

\* processedImages.push(imageInfo)
Push(run) == [run EXCEPT !.processedImages = Append(@, ImageInfo(run))]

\* imageModel.create answered: the entry is pushed and the loop goes on, or the
\* insert was rejected.
RunInsert(r, storeOk) ==
    /\ r \in DOMAIN runs
    /\ runs[r].pc = "insert"
    /\ LET run == runs[r]
           ins == IF storeOk THEN imageCreate(images, ImageDoc(run))
                  ELSE [ok |-> FALSE, images |-> images, error |-> Str(<<STORE_DOWN>>)]
       IN IF ins.ok
          THEN /\ images' = ins.images
               /\ runs' = [runs EXCEPT ![r] = AfterResolution(Push(run), fs)]
               /\ dirs' = IF run.k < Len(Resolutions)
                          THEN DirsAfterStart(run, run.k + 1, fs)
                          ELSE dirs
          ELSE /\ images' = images
               /\ runs' = [runs EXCEPT ![r].error = ins.error, ![r].pc = "fail"]
               /\ dirs' = dirs
    /\ UNCHANGED <<tasks, fs, outFiles, calls, fsWrites, uuids, updates, reply>>

\* The update of the try block.
CompletedUpdate(run) == [status |-> COMPLETED, images |-> run.processedImages]

\* FailedUpdate with the message left out.
FailedUpdateStatusOnly(run) == [status |-> FAILED]

\* The update of the catch block.
FailedUpdate(run) == [status |-> FAILED, errorMessage |-> run.error]

\* The final findByIdAndUpdate of the try block; its failure is caught like any other.
RunComplete(r, storeOk) ==
    /\ r \in DOMAIN runs
    /\ runs[r].pc = "complete"
    /\ IF storeOk
       THEN /\ tasks' = findByIdAndUpdate(tasks, runs[r].taskId, CompletedUpdate(runs[r]))
            /\ runs' = [runs EXCEPT ![r].pc = "done", ![r].settled = "resolved"]
       ELSE /\ tasks' = tasks
            /\ runs' = [runs EXCEPT ![r].error = Str(<<STORE_DOWN>>), ![r].pc = "fail"]
    /\ UNCHANGED <<images, fs, outFiles, dirs, calls, fsWrites, uuids, updates, reply>>

\* The findByIdAndUpdate of the catch block; nothing catches its failure.
RunFail(r, storeOk) ==
    /\ r \in DOMAIN runs
    /\ runs[r].pc = "fail"
    /\ IF storeOk
       THEN /\ tasks' = findByIdAndUpdate(tasks, runs[r].taskId, FailedUpdate(runs[r]))
            /\ runs' = [runs EXCEPT ![r].pc = "done", ![r].settled = "resolved"]
       ELSE /\ tasks' = tasks
            /\ runs' = [runs EXCEPT ![r].pc = "done", ![r].settled = "rejected"]
    /\ UNCHANGED <<images, fs, outFiles, dirs, calls, fsWrites, uuids, updates, reply>>

----------------------------------------------------------------------------
(* The disk, changed from outside the program *)

FsWrite(p, content) ==
    /\ fsWrites < MaxFsWrites
    /\ p \in LocalPaths
    /\ fs[p] # content
    /\ fs' = [fs EXCEPT ![p] = content]
    /\ fsWrites' = fsWrites + 1
    /\ UNCHANGED <<tasks, images, outFiles, dirs, calls, runs, uuids, updates, reply>>

----------------------------------------------------------------------------
(* Specifications *)

Init ==
    /\ tasks = <<>>
    /\ images = <<>>
    /\ fs = [p \in AllPaths |-> IF p = PathA THEN "img1"
                                ELSE IF p \in {PathB, PathC} THEN "corrupt" ELSE Absent]
    /\ outFiles = <<>>
    /\ dirs = {}
    /\ calls = <<>>
    /\ runs = <<>>
    /\ fsWrites = 0
    /\ uuids = 0
    /\ updates = <<>>
    /\ reply = NoReply

\* The service as the HTTP boundary drives it: create, the run each create
\* starts, and the disk.
Requests(maxCalls) ==
    \/ \E dto \in Dtos, r \in RandomDraws : CreateCall(dto, r, maxCalls)
    \/ \E c \in DOMAIN calls, fetched \in FetchedContents : CreateDownload(c, fetched)
    \/ \E c \in DOMAIN calls : CreatePersist(c, TRUE)
    \/ \E c \in DOMAIN calls : CreateReturn(c)
    \/ \E r \in DOMAIN runs : RunLoad(r, TRUE)
    \/ \E r \in DOMAIN runs, writeOk \in BOOLEAN : RunResize(r, writeOk)
    \/ \E r \in DOMAIN runs : RunInsert(r, TRUE)
    \/ \E r \in DOMAIN runs : RunComplete(r, TRUE)
    \/ \E r \in DOMAIN runs : RunFail(r, TRUE)
    \/ \E p \in LocalPaths, content \in {Absent, "img2"} : FsWrite(p, content)

NextCreate == Requests(MaxCalls)

SpecCreate == Init /\ [][NextCreate]_vars

\* TasksService with every public operation called from outside: create with
\* the run it starts, updateTaskStatus and findOne.
Next ==
    \/ Requests(MaxDirectCalls)
    \/ \E id \in DOMAIN tasks \cup {UnknownId, MalformedId}, status \in TaskStatus,
          imagesArg \in ImagesArgs, errorMessage \in MessageArgs :
            UpdateTaskStatus(id, status, imagesArg, errorMessage)
    \/ UpdateSteps
    \/ \E id \in DOMAIN tasks \cup {UnknownId, MalformedId} : FindOneCall(id)

Spec == Init /\ [][Next]_vars

\* Retries only: one create, direct processTask calls, and resets to PENDING.
\* Reset is the call updateTaskStatus(id, PENDING).
Reset(id) == UpdateTaskStatus(id, PENDING, NotPassed, Undefined)

NextRetry ==
    \/ Requests(MaxDirectCalls)
    \/ \E id \in DOMAIN tasks : ProcessTaskCall(id, MaxDirectRuns)
    \/ \E id \in DOMAIN tasks : Reset(id)
    \/ UpdateSteps

SpecRetry == Init /\ [][NextRetry]_vars

\* Operations called by hand on a task: one create, direct processTask calls,
\* and updateTaskStatus with a status alone.
NextManual ==
    \/ Requests(MaxDirectCalls)
    \/ \E id \in DOMAIN tasks : ProcessTaskCall(id, MaxDirectRuns)
    \/ \E id \in DOMAIN tasks, status \in TaskStatus :
          UpdateTaskStatus(id, status, NotPassed, Undefined)
    \/ UpdateSteps

SpecManual == Init /\ [][NextManual]_vars

\* The pipeline over a store whose operations may fail: one create, direct
\* processTask calls, and every store operation of a run answering or failing.
NextStore ==
    \/ \E dto \in Dtos, r \in RandomDraws : CreateCall(dto, r, MaxDirectCalls)
    \/ \E c \in DOMAIN calls, fetched \in FetchedContents : CreateDownload(c, fetched)
    \/ \E c \in DOMAIN calls, storeOk \in BOOLEAN : CreatePersist(c, storeOk)
    \/ \E c \in DOMAIN calls : CreateReturn(c)
    \/ \E id \in DOMAIN tasks \cup {UnknownId} : ProcessTaskCall(id, MaxDirectRuns)
    \/ \E r \in DOMAIN runs, storeOk \in BOOLEAN : RunLoad(r, storeOk)
    \/ \E r \in DOMAIN runs, writeOk \in BOOLEAN : RunResize(r, writeOk)
    \/ \E r \in DOMAIN runs, storeOk \in BOOLEAN : RunInsert(r, storeOk)
    \/ \E r \in DOMAIN runs, storeOk \in BOOLEAN : RunComplete(r, storeOk)
    \/ \E r \in DOMAIN runs, storeOk \in BOOLEAN : RunFail(r, storeOk)
    \/ \E p \in LocalPaths, content \in {Absent, "img2"} : FsWrite(p, content)

SpecStore == Init /\ [][NextStore]_vars

\* Re-processing: one create, and when every run of a task has ended, a reset
\* of the task to PENDING and then a further processTask call.
Quiet(id) == \A r \in DOMAIN runs : runs[r].taskId = id => runs[r].pc = "done"

WasReset(id) ==
    /\ tasks[id].status = PENDING
    /\ tasks[id].errorMessage = Null

NextReprocess ==
    \/ Requests(MaxDirectCalls)
    \/ \E id \in DOMAIN tasks :
          /\ Quiet(id) /\ runs # <<>>
          /\ Reset(id)
    \/ UpdateSteps
    \/ \E id \in DOMAIN tasks :
          /\ Quiet(id) /\ WasReset(id)
          /\ ProcessTaskCall(id, MaxDirectRuns)

SpecReprocess == Init /\ [][NextReprocess]_vars

\* The HTTP-driven service over a store whose insert of the task may fail.
NextPersist ==
    \/ Requests(MaxCalls)
    \/ \E c \in DOMAIN calls : CreatePersist(c, FALSE)

SpecPersist == Init /\ [][NextPersist]_vars

\* Updates during a run: one create, and updateTaskStatus called on a task
\* while a processTask run on it has started and not ended.
InFlight(id) == \E r \in DOMAIN runs : runs[r].taskId = id /\ runs[r].pc # "done"

NextInFlight ==
    \/ Requests(MaxDirectCalls)
    \/ \E id \in DOMAIN tasks, status \in TaskStatus,
          imagesArg \in ImagesArgs, errorMessage \in MessageArgs :
            /\ InFlight(id)
            /\ UpdateTaskStatus(id, status, imagesArg, errorMessage)
    \/ UpdateSteps

SpecInFlight == Init /\ [][NextInFlight]_vars

\* The two endpoints: POST /api/tasks with the run it starts, and GET
\* /api/tasks/:taskId.
NextHttp ==
    \/ Requests(MaxDirectCalls)
    \/ \E id \in DOMAIN tasks \cup {UnknownId, MalformedId} : FindOneCall(id)

SpecHttp == Init /\ [][NextHttp]_vars

\* Tasks made from local files, run by their create and run again by hand: the
\* creates of a local path, the run each starts, direct processTask calls and
\* the disk. Math.random() is drawn as 0, the price playing no part in a run.
LocalDtos == {dto \in Dtos : dto.url = NoUrl /\ dto.localPath \in LocalPaths}

NextRuns ==
    \/ \E dto \in LocalDtos : CreateCall(dto, 0, MaxCalls)
    \/ \E c \in DOMAIN calls : CreatePersist(c, TRUE)
    \/ \E c \in DOMAIN calls : CreateReturn(c)
    \/ \E id \in DOMAIN tasks : ProcessTaskCall(id, MaxDirectRuns)
    \/ \E r \in DOMAIN runs : RunLoad(r, TRUE)
    \/ \E r \in DOMAIN runs, writeOk \in BOOLEAN : RunResize(r, writeOk)
    \/ \E r \in DOMAIN runs : RunInsert(r, TRUE)
    \/ \E r \in DOMAIN runs : RunComplete(r, TRUE)
    \/ \E r \in DOMAIN runs : RunFail(r, TRUE)
    \/ \E p \in LocalPaths, content \in {Absent, "img2"} : FsWrite(p, content)

SpecRuns == Init /\ [][NextRuns]_vars

\* The HTTP-driven service over a store whose operations may fail: create with
\* the run each create starts, every await of the store answering or throwing.
NextAnswered ==
    \/ Requests(MaxCalls)
    \/ \E c \in DOMAIN calls : CreatePersist(c, FALSE)
    \/ \E r \in DOMAIN runs : RunLoad(r, FALSE)
    \/ \E r \in DOMAIN runs : RunInsert(r, FALSE)
    \/ \E r \in DOMAIN runs : RunComplete(r, FALSE)
    \/ \E r \in DOMAIN runs : RunFail(r, FALSE)

\* The continuation of a create after its pending await: the awaited operation
\* has settled, with its result or with its error.
CallStep(c) ==
    \/ \E fetched \in FetchedContents : CreateDownload(c, fetched)
    \/ \E storeOk \in BOOLEAN : CreatePersist(c, storeOk)
    \/ CreateReturn(c)

\* The continuation of a processTask invocation after its pending await: the
\* store or sharp has settled, with its result or with its error. The catch
\* block's own update is one of them and nothing catches its error.
RunStep(r) ==
    \/ \E storeOk \in BOOLEAN : RunLoad(r, storeOk)
    \/ \E writeOk \in BOOLEAN : RunResize(r, writeOk)
    \/ \E storeOk \in BOOLEAN : RunInsert(r, storeOk)
    \/ \E storeOk \in BOOLEAN : RunComplete(r, storeOk)
    \/ \E storeOk \in BOOLEAN : RunFail(r, storeOk)

\* Fair scheduling: the event loop runs every continuation whose awaited
\* operation has settled. Which way the operation settles is not the
\* scheduler's choice, so fairness is on the continuation, not on its outcome.
FairSpecCreate ==
    /\ Init /\ [][NextAnswered]_vars
    /\ \A c \in 1..MaxCalls : WF_vars(CallStep(c))
    /\ \A r \in 1..MaxCalls : WF_vars(RunStep(r))

----------------------------------------------------------------------------
(* Claims *)

Terminal == {COMPLETED, FAILED}
ImagesOfTask(id) == {i \in DOMAIN images : images[i].taskId = id}

\* C1: a task processed only by the run its create dispatched starts PENDING
\* and its status changes only from PENDING, and only to COMPLETED or FAILED;
\* a terminal status never changes again.
C1_StatusChangesOnce ==
    [][ /\ \A id \in DOMAIN tasks' \ DOMAIN tasks : tasks'[id].status = PENDING
        /\ \A id \in DOMAIN tasks :
              tasks'[id].status # tasks[id].status =>
                  tasks[id].status = PENDING /\ tasks'[id].status \in Terminal ]_vars

\* C1 witness: both terminal statuses have been reached by dispatched runs that finished.
C1_Witness ==
    /\ \E id \in DOMAIN tasks : tasks[id].status = COMPLETED
    /\ \E id \in DOMAIN tasks : tasks[id].status = FAILED
    /\ \A r \in DOMAIN runs : runs[r].pc = "done"

\* C2: under fair scheduling every task in the store eventually has status
\* COMPLETED or FAILED. Refuted: when the update of the catch block is itself
\* refused by the store, the run ends rejected and the task stays PENDING.
C2_EventuallyTerminal ==
    \A id \in 1..MaxCalls :
        (id \in DOMAIN tasks) ~> (id \in DOMAIN tasks /\ tasks[id].status \in Terminal)

\* C3: a task's images list has one entry per configured resolution exactly
\* when its status is COMPLETED, and is empty when the status is PENDING or FAILED.
C3_ImagesIffCompleted ==
    \A id \in DOMAIN tasks :
        /\ (Len(tasks[id].images) = Len(Resolutions)) <=> (tasks[id].status = COMPLETED)
        /\ tasks[id].status \in {PENDING, FAILED} => tasks[id].images = <<>>

\* C4: a task's errorMessage is set exactly when its status is FAILED.
C4_ErrorIffFailed ==
    \A id \in DOMAIN tasks : IsSet(tasks[id].errorMessage) <=> (tasks[id].status = FAILED)

\* C5: when the run of a task has failed, the task is FAILED, its images list is
\* empty and the Image collection holds no document of the task.
C5_AllOrNothing ==
    \A r \in DOMAIN runs :
        (runs[r].pc = "done" /\ IsSet(runs[r].error) /\ Exists(tasks, runs[r].taskId)) =>
            /\ tasks[runs[r].taskId].status = FAILED
            /\ tasks[runs[r].taskId].images = <<>>
            /\ ImagesOfTask(runs[r].taskId) = {}

\* The images list a run that met no error leaves: one entry per resolution, in
\* the configured order.
InConfiguredOrder(list) ==
    /\ Len(list) = Len(Resolutions)
    /\ \A k \in DOMAIN list : list[k].resolution = Resolutions[k]

\* C6: when the run of a task met no error, the task is COMPLETED, its images
\* list has one entry per configured resolution in the configured order, each
\* entry carries the path of the Image document of that resolution, and the
\* collection holds exactly one Image document of the task per resolution.
C6_CompletedInOrder ==
    \A r \in DOMAIN runs :
        (runs[r].pc = "done" /\ ~IsSet(runs[r].error)) =>
            LET id == runs[r].taskId
            IN /\ tasks[id].status = COMPLETED
               /\ InConfiguredOrder(tasks[id].images)
               /\ \A k \in DOMAIN Resolutions :
                     /\ Cardinality({i \in ImagesOfTask(id) :
                                        images[i].resolution = Resolutions[k]}) = 1
                     /\ \E i \in ImagesOfTask(id) :
                            /\ images[i].resolution = Resolutions[k]
                            /\ images[i].path = tasks[id].images[k].path

\* C6 witness: a run has finished without an error.
C6_Witness ==
    \E r \in DOMAIN runs :
        /\ runs[r].pc = "done"
        /\ ~IsSet(runs[r].error)
        /\ Len(runs[r].processedImages) = Len(Resolutions)

\* C7: a run that finds the task's file missing when it loads the task goes to
\* its catch block with the file-not-found message naming the path, having
\* touched neither the store nor the disk; the catch block then leaves the task
\* FAILED with that message and an empty images list, and neither step creates
\* an Image document or an output file.
C7_MissingFileFails ==
    [][ /\ \A r \in DOMAIN runs :
              LET id == runs[r].taskId
              IN (/\ runs[r].pc = "load" /\ runs'[r].pc # "load"
                  /\ Exists(tasks, id) /\ ~existsSync(fs, tasks[id].originalPath)) =>
                    /\ runs'[r].pc = "fail"
                    /\ Contains(runs'[r].error, FILE_NOT_FOUND)
                    /\ Contains(runs'[r].error, PathStr(tasks[id].originalPath))
                    /\ runs'[r].processedImages = <<>>
                    /\ tasks' = tasks /\ images' = images
                    /\ outFiles' = outFiles /\ dirs' = dirs
        /\ \A r \in DOMAIN runs :
              LET id == runs[r].taskId
              IN (/\ runs[r].pc = "fail" /\ runs'[r].pc = "done"
                  /\ Contains(runs[r].error, FILE_NOT_FOUND)) =>
                    /\ tasks'[id].status = FAILED
                    /\ tasks'[id].errorMessage = runs[r].error
                    /\ tasks'[id].images = <<>>
                    /\ ImagesOfTask(id) = {}
                    /\ images' = images /\ outFiles' = outFiles ]_vars

\* C7 witness: a file that was there when the task was created was gone when
\* the run loaded the task, and the task is FAILED with the message.
C7_Witness ==
    \E r \in DOMAIN runs :
        /\ runs[r].pc = "done"
        /\ runs[r].caller = "create"
        /\ Contains(runs[r].error, FILE_NOT_FOUND)
        /\ tasks[runs[r].taskId].status = FAILED
        /\ Contains(tasks[runs[r].taskId].errorMessage, PathStr(tasks[runs[r].taskId].originalPath))

\* C8: no step of a processTask run whose id matches no task changes the Task
\* collection, the Image collection or the output files.
C8_MissingTaskNoChange ==
    [][ \A r \in DOMAIN runs :
            (~Exists(tasks, runs[r].taskId) /\ runs'[r] # runs[r]) =>
                /\ tasks' = tasks /\ images' = images
                /\ outFiles' = outFiles /\ dirs' = dirs ]_vars

\* C8 witness: a run for an id that matches no task has gone through its catch
\* block and finished, with tasks in the store.
C8_Witness ==
    \E r \in DOMAIN runs :
        /\ runs[r].taskId = UnknownId
        /\ runs[r].pc = "done"
        /\ runs[r].error = NotFoundMessage(UnknownId)
        /\ tasks # <<>>

C10_PersistedBeforeDispatch ==
    [][ /\ \A r \in DOMAIN runs' \ DOMAIN runs :
              runs'[r].caller = "create" =>
                  /\ Exists(tasks, runs'[r].taskId)
                  /\ tasks[runs'[r].taskId].status = PENDING
        /\ \A c \in DOMAIN calls' :
              calls'[c].pc = "returned" =>
                  findOne(tasks', calls'[c].response.taskId).thrown = NoException ]_vars

\* C10 witness: create has returned, its run is past the load, and findOne
\* gives the task.
C10_Witness ==
    \E c \in DOMAIN calls, r \in DOMAIN runs :
        /\ calls[c].pc = "returned"
        /\ runs[r].taskId = calls[c].response.taskId
        /\ runs[r].pc = "resize"
        /\ findOne(tasks, calls[c].response.taskId).response.status = PENDING

\* The runs of a task.
RunsOfTask(rs, id) == {r \in DOMAIN rs : rs[r].taskId = id}

\* The create calls that return in this step.
Returning(c) ==
    /\ c \in DOMAIN calls'
    /\ calls'[c].pc = "returned"
    /\ (c \in DOMAIN calls => calls[c].pc # "returned")

\* C11: in the state in which create returns, findOne on the returned id gives
\* exactly the id, status PENDING and the price, with no images and no
\* errorMessage; and a findOne answered while the run of a returned task has
\* not yet loaded it gives the same.
C11_PendingAfterCreate ==
    [][ /\ \A c \in DOMAIN calls' :
              Returning(c) =>
                  LET id == calls'[c].response.taskId
                  IN findOne(tasks', id) =
                        Returned("findOne", id,
                                 [taskId |-> id, status |-> PENDING, price |-> calls'[c].price])
        /\ \A c \in DOMAIN calls :
              (/\ calls[c].pc = "returned"
               /\ reply' # reply
               /\ reply'.id = calls[c].response.taskId
               /\ \A r \in RunsOfTask(runs, reply'.id) : runs[r].pc = "load") =>
                  /\ reply'.thrown = NoException
                  /\ DOMAIN reply'.response = {"taskId", "status", "price"}
                  /\ reply'.response.status = PENDING
                  /\ reply'.response.taskId = calls[c].response.taskId
                  /\ reply'.response.price = calls[c].response.price ]_vars

\* C11 witness: findOne was answered for a task whose create has returned and
\* whose run has not started, with PENDING and neither images nor errorMessage.
C11_Witness ==
    \E c \in DOMAIN calls :
        /\ calls[c].pc = "returned"
        /\ reply.op = "findOne"
        /\ reply.id = calls[c].response.taskId
        /\ reply.response = [taskId |-> reply.id, status |-> PENDING, price |-> calls[c].price]
        /\ \A r \in RunsOfTask(runs, reply.id) : runs[r].pc = "load"

\* C12: create returns in the step that starts the run, with status PENDING
\* and the id of the stored task, while that run has not taken a step; and
\* once create has returned nothing the run does, its failure and its
\* rejection included, changes the outcome of the call.
C12_CreateDoesNotWait ==
    [][ /\ \A c \in DOMAIN calls' :
              Returning(c) =>
                  /\ calls'[c].response.status = PENDING
                  /\ calls'[c].response.taskId = calls'[c].taskId
                  /\ calls'[c].thrown = NoException
                  /\ Len(runs') = Len(runs) + 1
                  /\ runs'[Len(runs')].taskId = calls'[c].taskId
                  /\ runs'[Len(runs')].pc = "load"
                  /\ runs'[Len(runs')].settled = "pending"
        /\ \A c \in DOMAIN calls :
              calls[c].pc = "returned" =>
                  /\ calls'[c].pc = "returned"
                  /\ calls'[c].response = calls[c].response
                  /\ calls'[c].thrown = NoException ]_vars

\* C12 witness: create has returned PENDING and its run is in progress, at the
\* second resolution.
C12_Witness ==
    \E c \in DOMAIN calls, r \in DOMAIN runs :
        /\ calls[c].pc = "returned"
        /\ calls[c].response.status = PENDING
        /\ runs[r].taskId = calls[c].taskId
        /\ runs[r].caller = "create"
        /\ runs[r].pc = "insert"
        /\ runs[r].k = Len(Resolutions)

\* The create calls with neither a url nor a localPath, with both, with a url
\* that does not parse, with a localPath only.
NeitherGiven(call) == call.dto.url = NoUrl /\ call.dto.localPath = NoPath
BothGiven(call) == call.dto.url # NoUrl /\ call.dto.localPath # NoPath
UrlMalformed(call) == call.dto.url # NoUrl /\ call.dto.url.scheme = ""
LocalOnly(call) == call.dto.url = NoUrl /\ call.dto.localPath # NoPath

\* C13 as claimed: a create with neither url nor localPath is answered with
\* status 400 and the missing-path message, and has stored no task.
C13_MissingPathIs400 ==
    \A c \in DOMAIN calls :
        NeitherGiven(calls[c]) =>
            /\ calls[c].pc = "threw"
            /\ calls[c].taskId = UnknownId
            /\ PostResponse(calls[c]).statusCode = 400
            /\ Contains(PostResponse(calls[c]).message, MISSING_PATH)

\* C14 as claimed: a create with both url and localPath set never gets as far
\* as storing a task.
C14_BothSetRejected ==
    \A c \in DOMAIN calls :
        BothGiven(calls[c]) =>
            /\ calls[c].pc \notin {"persisted", "returned"}
            /\ calls[c].taskId = UnknownId

\* C15: a create whose url does not parse throws BadRequestException and is
\* answered with status 400 and the message "Malformed URL"; the step that
\* takes the call draws no file name, writes no file, stores no task and
\* starts no run, and the call never goes further.
C15_MalformedUrlIs400 ==
    [][ \A c \in DOMAIN calls' :
            UrlMalformed(calls'[c]) =>
                /\ calls'[c].pc = "threw"
                /\ calls'[c].thrown = Exception("BadRequestException", <<MALFORMED_URL>>)
                /\ PostResponse(calls'[c]) =
                       [statusCode |-> 400, message |-> Str(<<MALFORMED_URL>>)]
                /\ calls'[c].originalPath = NoPath
                /\ calls'[c].taskId = UnknownId
                /\ c \notin DOMAIN calls =>
                       /\ uuids' = uuids /\ fs' = fs
                       /\ tasks' = tasks /\ runs' = runs ]_vars

\* C15 witness: a create with the url "not-a-url" was answered with 400 while
\* another create stored its task.
C15_Witness ==
    \E c \in DOMAIN calls :
        /\ calls[c].dto.url = BadUrl
        /\ PostResponse(calls[c]).statusCode = 400
        /\ Len(tasks) = 1

\* C16 as claimed: a create with a localPath that throws (the file was not on
\* disk) is answered with status 404 and a message that includes the path, and
\* has stored no task.
C16_MissingLocalFileIs404 ==
    \A c \in DOMAIN calls :
        (LocalOnly(calls[c]) /\ calls[c].pc = "threw") =>
            /\ calls[c].taskId = UnknownId
            /\ PostResponse(calls[c]).statusCode = 404
            /\ Contains(PostResponse(calls[c]).message, PathStr(calls[c].dto.localPath))

\* C17: when the download of a create ends without the file written, create
\* throws an Error whose message is the download failure followed by the cause,
\* the call is answered with status 500, and the step stores no task and starts
\* no run; a create that has thrown never goes further.
C17_DownloadFailureIs500 ==
    [][ /\ \A c \in DOMAIN calls :
              (/\ calls[c].pc = "download"
               /\ calls'[c] # calls[c]
               /\ ~existsSync(fs', calls[c].originalPath)) =>
                  /\ calls'[c].pc = "threw"
                  /\ calls'[c].thrown.class = "Error"
                  /\ calls'[c].thrown.message = Str(<<DOWNLOAD_FAILED, "network">>)
                  /\ PostResponse(calls'[c]).statusCode = 500
                  /\ calls'[c].taskId = UnknownId
                  /\ tasks' = tasks /\ runs' = runs
        /\ \A c \in DOMAIN calls :
              calls[c].pc = "threw" => calls'[c] = calls[c] ]_vars

\* C17 witness: a create with a url has failed on its download and was answered
\* with 500, and neither a task nor a run exists.
C17_Witness ==
    \E c \in DOMAIN calls :
        /\ calls[c].dto.url = GoodUrl
        /\ calls[c].pc = "threw"
        /\ Contains(calls[c].thrown.message, DOWNLOAD_FAILED)
        /\ PostResponse(calls[c]).statusCode = 500
        /\ tasks = <<>> /\ runs = <<>>

\* C18 as claimed: a create whose localPath does not match the pattern is
\* rejected when it is taken, with status 400, and has stored no task.
C18_BadPatternIs400 ==
    \A c \in DOMAIN calls :
        (calls[c].dto.localPath # NoPath /\ ~MatchesLocalPath(calls[c].dto.localPath)) =>
            /\ calls[c].pc = "threw"
            /\ PostResponse(calls[c]).statusCode = 400
            /\ calls[c].taskId = UnknownId

\* C19: a findOne answered for a task in the store returns its id, status and
\* price, the images exactly when the status is COMPLETED and the errorMessage
\* exactly when it is FAILED, each as stored.
C19_FindOneFields ==
    [][ (reply' # reply /\ reply'.op = "findOne" /\ Exists(tasks, reply'.id)) =>
            LET t == tasks[reply'.id]
                resp == reply'.response
            IN /\ reply'.thrown = NoException
               /\ resp.taskId = reply'.id
               /\ resp.status = t.status
               /\ resp.price = t.price
               /\ ("images" \in DOMAIN resp) <=> (t.status = COMPLETED)
               /\ ("errorMessage" \in DOMAIN resp) <=> (t.status = FAILED)
               /\ t.status = COMPLETED => resp.images = t.images
               /\ t.status = FAILED => resp.errorMessage = t.errorMessage ]_vars

\* C19 witness: findOne was answered for a FAILED task whose record holds
\* images, without the images and with the errorMessage.
C19_Witness ==
    /\ reply.op = "findOne"
    /\ Exists(tasks, reply.id)
    /\ tasks[reply.id].status = FAILED
    /\ tasks[reply.id].images # <<>>
    /\ reply.response = [taskId |-> reply.id, status |-> FAILED,
                         price |-> tasks[reply.id].price,
                         errorMessage |-> tasks[reply.id].errorMessage]

\* C20: two findOne calls that failed one after the other, whether on a
\* malformed id or on a well-formed id that matches no task, gave the same
\* class of exception, the same status and the same message before the id, so
\* that the caller cannot tell an invalid id from a missing task. Refuted: the
\* class and the status agree, the messages are "Invalid task ID" and "Task not
\* found".
C20_FailuresIdentical ==
    [][ (/\ reply.op = "findOne" /\ reply.thrown # NoException
         /\ reply'.op = "findOne" /\ reply'.thrown # NoException) =>
            /\ reply'.thrown.class = reply.thrown.class
            /\ GetResponse(reply').statusCode = GetResponse(reply).statusCode
            /\ reply'.thrown.message.text[1] = reply.thrown.message.text[1] ]_vars

\* The step is one of an updateTaskStatus call; the step in which the store
\* answers the findById of call u; the step in which it answers its
\* findByIdAndUpdate.
UpdateStep == updates' # updates
FindStep(u) == updates[u].pc = "find" /\ updates'[u].pc # "find"
WriteStep(u) == updates[u].pc = "write" /\ updates'[u].pc = "done"

\* C21 as claimed: an updateTaskStatus call on an id that matches no task throws
\* NotFoundException and changes no record.
C21_MissingIdIsNotFound ==
    [][ \A u \in DOMAIN updates :
            (FindStep(u) /\ ~Exists(tasks, updates[u].id)) =>
                /\ reply'.op = "updateTaskStatus"
                /\ reply'.id = updates[u].id
                /\ reply'.thrown.class = "NotFoundException"
                /\ tasks' = tasks /\ images' = images ]_vars

\* C22: an updateTaskStatus call that leaves an existing task PENDING leaves it
\* with an empty images list and errorMessage null, its other fields as they
\* were, whatever the task held before and whatever was passed.
C22_ResetClears ==
    [][ \A id \in DOMAIN tasks, u \in DOMAIN updates :
            (WriteStep(u) /\ updates[u].id = id /\ tasks'[id].status = PENDING) =>
                /\ reply'.thrown = NoException
                /\ tasks'[id] = [tasks[id] EXCEPT !.status = PENDING, !.images = <<>>,
                                                  !.errorMessage = Null]
                /\ \A imagesArg \in ImagesArgs, m \in MessageArgs :
                      tasks' = findByIdAndUpdate(tasks, id, updateData(PENDING, imagesArg, m)) ]_vars

\* C22 witness: a task whose run had ended was reset, and is PENDING with no
\* images and errorMessage null.
C22_Witness ==
    /\ reply.op = "updateTaskStatus"
    /\ reply.thrown = NoException
    /\ Exists(tasks, reply.id)
    /\ tasks[reply.id].status = PENDING
    /\ tasks[reply.id].images = <<>>
    /\ tasks[reply.id].errorMessage = Null
    /\ \E r \in RunsOfTask(runs, reply.id) : runs[r].pc = "done"

\* Lists to replace the stored one with: empty, one entry, and two entries in
\* the order opposite to the configured one.
ReplacementLists ==
    {<<>>, SampleImages,
     <<[resolution |-> "800", path |-> "/output/y/800/y.jpg"],
       [resolution |-> "1024", path |-> "/output/y/1024/y.jpg"]>>}

\* C23: on every task of every reachable state, the update of updateTaskStatus
\* with COMPLETED and a list leaves the task COMPLETED with exactly that list,
\* and the update with FAILED and a non-empty message leaves it FAILED with
\* that message; the other fields stay.
C23_UpdateStoresPayload ==
    \A id \in DOMAIN tasks :
        /\ \A list \in ReplacementLists :
              LET after == findByIdAndUpdate(tasks, id,
                               updateData(COMPLETED, Passed(list), Undefined))[id]
              IN after = [tasks[id] EXCEPT !.status = COMPLETED, !.images = list]
        /\ \A m \in MessageArgs :
              (IsSet(m) /\ m.text # <<>>) =>
                  LET after == findByIdAndUpdate(tasks, id,
                                   updateData(FAILED, NotPassed, m))[id]
                  IN after = [tasks[id] EXCEPT !.status = FAILED, !.errorMessage = m]

\* C23 witness: after its run had stored one entry per resolution, a task was
\* updated to COMPLETED with a list of one entry, and holds that list.
C23_Witness ==
    /\ reply.op = "updateTaskStatus"
    /\ reply.thrown = NoException
    /\ Exists(tasks, reply.id)
    /\ tasks[reply.id].status = COMPLETED
    /\ tasks[reply.id].images = SampleImages
    /\ \E r \in RunsOfTask(runs, reply.id) :
          /\ runs[r].pc = "done" /\ ~IsSet(runs[r].error)
          /\ Len(runs[r].processedImages) = Len(Resolutions)

\* The completedAt of a stored task, undefined when the document has none.
CompletedAtOf(task) ==
    IF "completedAt" \in DOMAIN task THEN task.completedAt ELSE Undefined

\* C24 as claimed: a task whose status is COMPLETED or FAILED has its
\* completedAt set, and a PENDING task has none.
C24_CompletedAtSet ==
    \A id \in DOMAIN tasks :
        IsSet(CompletedAtOf(tasks[id])) <=> (tasks[id].status \in Terminal)

\* The runs of a task that create has started.
DispatchedRuns(rs, id) == {r \in RunsOfTask(rs, id) : rs[r].caller = "create"}

\* C25 as claimed: a FAILED task changes its status only in an updateTaskStatus
\* call that leaves it PENDING, and create starts one run per task at most.
C25_FailedUntilReset ==
    [][ /\ \A id \in DOMAIN tasks' : Cardinality(DispatchedRuns(runs', id)) <= 1
        /\ \A id \in DOMAIN tasks :
              (tasks[id].status = FAILED /\ tasks'[id].status # FAILED) =>
                  /\ \E u \in DOMAIN updates : WriteStep(u) /\ updates[u].id = id
                  /\ tasks'[id].status = PENDING ]_vars

\* C25 as amended: create starts one run per task at most, in the step in
\* which it returns, and nothing else starts one unasked; a FAILED task changes
\* its status only in an updateTaskStatus call on it, with whatever status, or
\* in the COMPLETED update of a processTask run on it.
C25_FailedUntilExplicitCall ==
    [][ /\ \A id \in DOMAIN tasks' : Cardinality(DispatchedRuns(runs', id)) <= 1
        /\ \A r \in DOMAIN runs' \ DOMAIN runs :
              runs'[r].caller = "create" =>
                  \E c \in DOMAIN calls :
                      /\ calls[c].pc = "persisted" /\ calls'[c].pc = "returned"
                      /\ calls[c].taskId = runs'[r].taskId
        /\ \A id \in DOMAIN tasks :
              (tasks[id].status = FAILED /\ tasks'[id].status # FAILED) =>
                  \/ \E u \in DOMAIN updates : WriteStep(u) /\ updates[u].id = id
                  \/ /\ \E r \in RunsOfTask(runs, id) :
                            runs[r].pc = "complete" /\ runs'[r].pc = "done"
                     /\ tasks'[id].status = COMPLETED ]_vars

\* C25 witness: the run create started failed, no updateTaskStatus call was
\* made, and a processTask call from outside has since left the task COMPLETED.
C25_Witness ==
    \E id \in DOMAIN tasks :
        /\ updates = <<>>
        /\ tasks[id].status = COMPLETED
        /\ \E r \in DispatchedRuns(runs, id) : runs[r].pc = "done" /\ IsSet(runs[r].error)
        /\ \E r \in DirectRuns :
              runs[r].taskId = id /\ runs[r].pc = "done" /\ ~IsSet(runs[r].error)

\* C26: the price of every create that stored its task is a whole number of
\* cents from 5.00 to 50.00, and is the price stored and the price returned.
C26_PriceInRange ==
    \A c \in DOMAIN calls :
        calls[c].pc \in {"persisted", "returned"} =>
            /\ calls[c].price \in 500..5000
            /\ tasks[calls[c].taskId].price = calls[c].price
            /\ calls[c].pc = "returned" => calls[c].response.price = calls[c].price

\* C26 witness: two creates have returned, one with the price 5.00 and one
\* with the price 50.00.
C26_Witness ==
    \E c, d \in DOMAIN calls :
        /\ calls[c].pc = "returned" /\ calls[c].response.price = 500
        /\ calls[d].pc = "returned" /\ calls[d].response.price = 5000

\* C27: no step removes a task or changes its price or its originalPath.
C27_IdentityImmutable ==
    [][ \A id \in DOMAIN tasks :
            /\ id \in DOMAIN tasks'
            /\ tasks'[id].price = tasks[id].price
            /\ tasks'[id].originalPath = tasks[id].originalPath ]_vars

\* C27 witness: a task went through its run and an updateTaskStatus call, a
\* findOne was answered for it, and it holds the price and path of its create.
C27_Witness ==
    \E c \in DOMAIN calls :
        /\ calls[c].pc = "returned"
        /\ \E u \in DOMAIN updates : updates[u].pc = "done" /\ updates[u].id = calls[c].taskId
        /\ reply.op = "findOne" /\ reply.id = calls[c].taskId
        /\ reply.thrown = NoException
        /\ \E r \in RunsOfTask(runs, calls[c].taskId) : runs[r].pc = "done"
        /\ tasks[calls[c].taskId].status = FAILED
        /\ tasks[calls[c].taskId].images # <<>>
        /\ tasks[calls[c].taskId].price = calls[c].price
        /\ tasks[calls[c].taskId].originalPath = calls[c].originalPath

\* C28: the derivative a run writes is at most as wide as the resolution and at
\* most as wide as the source it was made from, and as wide as the source when
\* the source is narrower than the resolution.
C28_NeverEnlarged ==
    [][ \A r \in DOMAIN runs :
            (runs[r].pc = "resize" /\ runs'[r].pc = "insert") =>
                LET file == finalPath(runs[r].originalPath, Resolutions[runs[r].k], runs[r].md5)
                    W == WidthOf(fs[runs[r].originalPath])
                    R == ParseInt(Resolutions[runs[r].k])
                IN /\ file \in DOMAIN outFiles'
                   /\ outFiles'[file] <= R
                   /\ outFiles'[file] <= W
                   /\ W < R => outFiles'[file] = W ]_vars

\* C28 witness: derivatives were written from a source narrower than every
\* resolution and from one between the two, none of them enlarged.
C28_Witness ==
    /\ \E file \in DOMAIN outFiles : outFiles[file] = WidthOf("img2")
    /\ \E file \in DOMAIN outFiles : outFiles[file] = WidthOf("img3")
    /\ \E file \in DOMAIN outFiles : outFiles[file] = ParseInt("800")

\* C29: no two Image documents have the same path.
C29_PathsUnique ==
    \A i, j \in DOMAIN images : images[i].path = images[j].path => i = j

\* C29 witness: the run of one task inserted an Image document; the run of
\* another task made from the same file, and a second run of the first task,
\* each tried to insert a document with that path and were refused.
C29_Witness ==
    \E i \in DOMAIN images, r, q \in DOMAIN runs :
        /\ runs[r].taskId # images[i].taskId
        /\ runs[r].error = Str(<<E11000, images[i].path>>)
        /\ runs[q].taskId = images[i].taskId
        /\ runs[q].caller = "direct"
        /\ runs[q].error = Str(<<E11000, images[i].path>>)

\* C30 as claimed: when a task whose first run ended without an error was reset
\* and processTask was called again, the source files untouched, every Image
\* insert of the second run is accepted and adds a document.
C30_ReprocessInserts ==
    [][ \A r \in DirectRuns :
            (/\ runs[r].pc = "insert" /\ runs'[r] # runs[r]
             /\ fsWrites = 0
             /\ \E first \in DispatchedRuns(runs, runs[r].taskId) :
                    /\ runs[first].pc = "done" /\ ~IsSet(runs[first].error)
                    /\ runs[first].md5 = runs[r].md5) =>
                /\ runs'[r].pc # "fail"
                /\ Len(images') = Len(images) + 1 ]_vars

\* C31: a step of a processTask run changes no Task record but the one of its
\* own task, no other run and no create call, and the runs of different tasks
\* share nothing but the store: the file a run writes is not one already
\* written. Each task has one run here and a run writes one file for each
\* resolution, so a file already there is another task's. Refuted: the runs of
\* two tasks made from the same file write the same file.
C31_RunsIndependent ==
    [][ \A r \in DOMAIN runs :
            runs'[r] # runs[r] =>
                /\ \A id \in DOMAIN tasks : id # runs[r].taskId => tasks'[id] = tasks[id]
                /\ DOMAIN tasks' = DOMAIN tasks
                /\ \A q \in DOMAIN runs : q # r => runs'[q] = runs[q]
                /\ calls' = calls /\ fs' = fs
                /\ \A i \in DOMAIN images' \ DOMAIN images :
                      images'[i].taskId = runs[r].taskId
                /\ (runs[r].pc = "resize" /\ runs'[r].pc = "insert") =>
                      finalPath(runs[r].originalPath, Resolutions[runs[r].k], runs[r].md5)
                          \notin DOMAIN outFiles ]_vars

\* C32 as claimed: the Image documents of one run, each task having the one run
\* its create started, all carry the same md5, and the path of each carries it
\* as the name of the derivative.
C32_OneHashPerRun ==
    \A r \in DOMAIN runs :
        \A i, j \in ImagesOfTask(runs[r].taskId) :
            /\ images[i].md5 = images[j].md5
            /\ images[i].path =
                   relativePath(runs[r].originalPath, images[i].resolution, images[j].md5)

\* C33 as claimed: when an updateTaskStatus call made during a run of the task
\* and the run have both ended, the task holds what the run's last update
\* wrote: COMPLETED with the images of the run, or FAILED with its message.
C33_RunOverwritesUpdate ==
    \A r \in DOMAIN runs, u \in DOMAIN updates :
        (/\ runs[r].pc = "done" /\ updates[u].pc = "done"
         /\ updates[u].id = runs[r].taskId) =>
            LET task == tasks[runs[r].taskId]
            IN IF IsSet(runs[r].error)
               THEN task.status = FAILED /\ task.errorMessage = runs[r].error
               ELSE task.status = COMPLETED /\ task.images = runs[r].processedImages

\* C33 as amended: no step of an updateTaskStatus call changes a run; the
\* run's last step applies its update whatever the record holds by then:
\* COMPLETED with the images of the run, or FAILED with the message of its
\* error; and the call's own write, which comes after the store has answered
\* its findById, is applied whatever the run has done by then, so that it
\* stays when it reaches the store after the run's last update.
C33_NoCancellation ==
    [][ /\ UpdateStep => runs' = runs
        /\ \A r \in DOMAIN runs :
              LET id == runs[r].taskId
              IN /\ (runs[r].pc = "complete" /\ runs'[r].pc = "done") =>
                        /\ tasks'[id].status = COMPLETED
                        /\ tasks'[id].images = runs[r].processedImages
                 /\ (runs[r].pc = "fail" /\ runs'[r].pc = "done" /\ Exists(tasks, id)) =>
                        /\ tasks'[id].status = FAILED
                        /\ tasks'[id].errorMessage = runs[r].error
        /\ \A u \in DOMAIN updates :
              WriteStep(u) =>
                  /\ tasks'[updates[u].id].status = updates[u].status
                  /\ updates[u].status = PENDING =>
                        /\ tasks'[updates[u].id].images = <<>>
                        /\ tasks'[updates[u].id].errorMessage = Null ]_vars

\* C33 witness: a reset was called while the run of the task was in progress;
\* the run has ended without an error, with an entry for every resolution, and
\* the reset, written after the run's COMPLETED update, has left the task
\* PENDING with no images.
C33_Witness ==
    \E r \in DOMAIN runs, u \in DOMAIN updates :
        /\ runs[r].pc = "done" /\ ~IsSet(runs[r].error)
        /\ Len(runs[r].processedImages) = Len(Resolutions)
        /\ updates[u].pc = "done" /\ updates[u].id = runs[r].taskId
        /\ updates[u].status = PENDING
        /\ tasks[runs[r].taskId].status = PENDING
        /\ tasks[runs[r].taskId].images = <<>>
        /\ tasks[runs[r].taskId].errorMessage = Null

\* C34: a run takes the resolutions one at a time in the configured order: it
\* goes from resolution k to k + 1 only in the step in which the Image document
\* of resolution k was inserted, the first one after the load; a step makes
\* the directory of the resolution it starts and writes the file of the
\* resolution it is at, no other; and once the run has failed it does nothing
\* but its FAILED update.
C34_OneResolutionAtATime ==
    [][ \A r \in DOMAIN runs :
            runs'[r] # runs[r] =>
                LET run == runs[r]
                    after == runs'[r]
                IN /\ run.pc # "done"
                   /\ after.k # run.k =>
                         /\ after.k = run.k + 1
                         /\ after.k \in DOMAIN Resolutions
                         /\ \/ run.k = 0 /\ run.pc = "load"
                            \/ /\ run.pc = "insert"
                               /\ images' = Append(images, ImageDoc(run))
                   /\ (run.pc = "insert" /\ images' # images /\ run.k < Len(Resolutions)) =>
                         after.k = run.k + 1
                   /\ (run.pc = "insert" /\ images' = images) =>
                         after.pc = "fail" /\ after.k = run.k
                   /\ run.pc = "fail" =>
                         /\ after.pc = "done" /\ after.k = run.k
                         /\ images' = images /\ outFiles' = outFiles /\ dirs' = dirs
                   /\ dirs' # dirs =>
                         /\ after.k = run.k + 1
                         /\ dirs' = dirs \cup {outputPath(after.originalPath, Resolutions[after.k])}
                   /\ outFiles' # outFiles =>
                         /\ run.pc = "resize"
                         /\ \A f \in DOMAIN outFiles' :
                               (f \notin DOMAIN outFiles \/ outFiles'[f] # outFiles[f]) =>
                                   f = finalPath(run.originalPath, Resolutions[run.k], run.md5) ]_vars

\* C34 witness: one run has gone through every resolution, and another failed
\* at the first one and has ended with the directory of the first resolution
\* made and none for the second.
C34_Witness ==
    \E r, q \in DOMAIN runs :
        /\ runs[r].pc = "done" /\ ~IsSet(runs[r].error)
        /\ runs[r].k = Len(Resolutions)
        /\ runs[q].pc = "done" /\ IsSet(runs[q].error)
        /\ runs[q].k = 1
        /\ outputPath(runs[q].originalPath, Resolutions[1]) \in dirs
        /\ outputPath(runs[q].originalPath, Resolutions[2]) \notin dirs

\* The error response the boundary owes for an exception: an HttpException's
\* own status and message, status 500 and the fixed message for anything else.
ByKind(exception) ==
    IF exception.class = "BadRequestException"
    THEN [statusCode |-> 400, message |-> exception.message]
    ELSE IF exception.class = "NotFoundException"
    THEN [statusCode |-> 404, message |-> exception.message]
    ELSE [statusCode |-> 500, message |-> Str(<<"Internal server error">>)]

\* C35: every create that threw and every findOne that threw is answered with
\* the status and message of its exception when that is an HttpException, and
\* with status 500 and "Internal server error" otherwise; no step of a run
\* changes what a create or a findOne was answered, and a create that returned
\* stays answered with 201 when its run fails.
C35_ErrorsMappedByKind ==
    [][ /\ \A c \in DOMAIN calls' :
              calls'[c].pc = "threw" => PostResponse(calls'[c]) = ByKind(calls'[c].thrown)
        /\ (reply'.op = "findOne" /\ reply'.thrown # NoException) =>
              GetResponse(reply') = ByKind(reply'.thrown)
        /\ \A r \in DOMAIN runs :
              runs'[r] # runs[r] =>
                  /\ calls' = calls /\ reply' = reply
                  /\ \A c \in DOMAIN calls :
                        calls[c].taskId = runs[r].taskId =>
                            PostResponse(calls'[c]).statusCode = 201 ]_vars

\* C35 witness: a create that threw a plain Error was answered with 500 and the
\* fixed message, not its own, and a findOne that threw NotFoundException was
\* answered with 404 and its own message.
C35_Witness ==
    /\ \E c \in DOMAIN calls :
          /\ calls[c].pc = "threw"
          /\ calls[c].thrown.class = "Error"
          /\ PostResponse(calls[c]).statusCode = 500
          /\ PostResponse(calls[c]).message = Str(<<INTERNAL_SERVER_ERROR>>)
          /\ calls[c].thrown.message # Str(<<INTERNAL_SERVER_ERROR>>)
    /\ reply.op = "findOne"
    /\ reply.thrown.class = "NotFoundException"
    /\ GetResponse(reply).statusCode = 404
    /\ GetResponse(reply).message = reply.thrown.message

\* C36 as claimed: when a run has written the derivative of a resolution, for a
\* source whose extension is an image's in whatever case, the directory
\* <outputRoot>/<name without extension>/<resolution> exists and holds the file
\* <md5><extension as written>.
C36_DirAndNameFromSource ==
    [][ \A r \in DOMAIN runs :
            (/\ runs[r].pc = "resize" /\ runs'[r].pc = "insert"
             /\ MatchesLocalPath(runs[r].originalPath)) =>
                LET source == runs[r].originalPath
                    dir == OutputDir \o "/" \o source.name \o "/" \o Resolutions[runs[r].k]
                IN /\ dir \in dirs'
                   /\ (dir \o "/" \o runs[r].md5 \o source.ext) \in DOMAIN outFiles' ]_vars

\* The create calls that throw in this step.
Throwing(c) ==
    /\ c \in DOMAIN calls'
    /\ calls'[c].pc = "threw"
    /\ (c \in DOMAIN calls => calls[c].pc # "threw")

\* C37: the step in which a create returns starts one run, for the task the
\* call stored; the step in which a create throws starts no run and leaves the
\* Task collection as it was; no other step starts a run; so every returned
\* create has exactly one run and a create that threw has none and no task.
C37_OneRunPerCreate ==
    [][ /\ \A c \in DOMAIN calls' :
              Returning(c) =>
                  /\ Len(runs') = Len(runs) + 1
                  /\ runs' = Append(runs, runs'[Len(runs')])
                  /\ runs'[Len(runs')].taskId = calls'[c].taskId
                  /\ runs'[Len(runs')].pc = "load"
                  /\ Exists(tasks, calls'[c].taskId)
                  /\ tasks' = tasks
        /\ \A c \in DOMAIN calls' :
              Throwing(c) =>
                  /\ runs' = runs /\ tasks' = tasks
                  /\ calls'[c].taskId = UnknownId
        /\ Len(runs') # Len(runs) => \E c \in DOMAIN calls' : Returning(c)
        /\ \A c \in DOMAIN calls' :
              /\ calls'[c].pc = "returned" =>
                    Cardinality(RunsOfTask(runs', calls'[c].taskId)) = 1
              /\ (c \in DOMAIN calls /\ calls[c].pc = "threw") => calls'[c] = calls[c]
        /\ Len(runs') = Cardinality({c \in DOMAIN calls' : calls'[c].pc = "returned"})
        /\ Len(tasks') = Cardinality({c \in DOMAIN calls' :
                                         calls'[c].pc \in {"persisted", "returned"}}) ]_vars

\* C37 witness: one create has returned and its task has its one run; another
\* create failed when the store refused the task, and there is no second task
\* and no second run.
C37_Witness ==
    \E c, d \in DOMAIN calls :
        /\ calls[c].pc = "returned"
        /\ Cardinality(RunsOfTask(runs, calls[c].taskId)) = 1
        /\ calls[d].pc = "threw"
        /\ calls[d].thrown = Exception("Error", <<STORE_DOWN>>)
        /\ Len(tasks) = 1 /\ Len(runs) = 1

\* The run ended, and met no failure other than the rejection of a duplicate path.
EndedOnIndexAtWorst(run) ==
    /\ run.pc = "done"
    /\ IsSet(run.error) => Contains(run.error, E11000)

\* The runs r and q are those of two different tasks made from the same source
\* file, its bytes never changed and no third task made from it, and both
\* have ended.
BothProcessed(r, q) ==
    /\ runs[r].taskId # runs[q].taskId
    /\ runs[r].originalPath # NoPath
    /\ runs[r].originalPath = runs[q].originalPath
    /\ \A id \in DOMAIN tasks :
          tasks[id].originalPath = runs[r].originalPath =>
              id \in {runs[r].taskId, runs[q].taskId}
    /\ fsWrites = 0
    /\ runs[r].pc = "done" /\ runs[q].pc = "done"

\* One of the two tasks is COMPLETED and the other is FAILED with the message
\* of the duplicate path.
OneCompletedOtherRefused(a, b) ==
    \/ /\ a.status = COMPLETED /\ b.status = FAILED
       /\ Contains(b.errorMessage, E11000)
    \/ /\ b.status = COMPLETED /\ a.status = FAILED
       /\ Contains(a.errorMessage, E11000)

\* C38 as claimed: when the runs of two tasks with the same source file have
\* both ended, one of the two tasks is COMPLETED and the other is FAILED with
\* the message of the duplicate path.
C38_ExactlyOneCompletes ==
    \A r, q \in DOMAIN runs :
        BothProcessed(r, q) =>
            OneCompletedOtherRefused(tasks[runs[r].taskId], tasks[runs[q].taskId])

\* C38 as amended: when the runs of two tasks with the same source file have
\* both ended, both tasks are COMPLETED or FAILED, never both COMPLETED and
\* never both FAILED on a duplicate path; a task beside a COMPLETED one is
\* FAILED; and when neither run met a failure of another kind (a file sharp
\* cannot decode or cannot write), one task is COMPLETED and the other is
\* FAILED with the message of the duplicate path, whichever run came first.
\* Both tasks are FAILED when the source cannot be decoded, or when the run
\* that inserted first failed at a later resolution.
C38_OneOfTwoCompletes ==
    \A r, q \in DOMAIN runs :
        BothProcessed(r, q) =>
            LET a == tasks[runs[r].taskId]
                b == tasks[runs[q].taskId]
            IN /\ a.status \in Terminal /\ b.status \in Terminal
               /\ ~(a.status = COMPLETED /\ b.status = COMPLETED)
               /\ ~(Contains(a.errorMessage, E11000) /\ Contains(b.errorMessage, E11000))
               /\ (EndedOnIndexAtWorst(runs[r]) /\ EndedOnIndexAtWorst(runs[q])) =>
                      OneCompletedOtherRefused(a, b)
               /\ (a.status = FAILED /\ b.status = FAILED) =>
                      \E x \in {r, q} :
                          IsSet(runs[x].error) /\ ~Contains(runs[x].error, E11000)

\* C38 witness: two tasks were created from the same file; the run of the
\* second inserted its first Image document before the run of the first, and
\* the first task is FAILED on the duplicate path while the second is COMPLETED.
C38_Witness ==
    /\ Len(tasks) = 2 /\ Len(runs) = 2
    /\ tasks[1].originalPath = tasks[2].originalPath
    /\ \A r \in DOMAIN runs : runs[r].pc = "done"
    /\ tasks[1].status = FAILED /\ Contains(tasks[1].errorMessage, E11000)
    /\ tasks[2].status = COMPLETED
    /\ Len(tasks[2].images) = Len(Resolutions)
    /\ fsWrites = 0

\* The entry of an images list has its Image document, of the given task.
HasRecord(imgs, entry, id) ==
    \E i \in DOMAIN imgs :
        /\ imgs[i].path = entry.path
        /\ imgs[i].resolution = entry.resolution
        /\ imgs[i].taskId = id

\* C39: in the step in which a run sets its task COMPLETED, every entry of the
\* images list it stores has an Image document with the same path and
\* resolution and the id of that task; and every Image document is inserted by
\* a run of its task whose derivative file of that resolution is on disk.
C39_ImagesHaveRecords ==
    [][ /\ \A r \in DOMAIN runs :
              (runs[r].pc = "complete" /\ runs'[r].pc = "done") =>
                  LET id == runs[r].taskId
                  IN /\ tasks'[id].status = COMPLETED
                     /\ Len(tasks'[id].images) = Len(Resolutions)
                     /\ \A k \in DOMAIN tasks'[id].images :
                           HasRecord(images', tasks'[id].images[k], id)
        /\ \A i \in DOMAIN images' \ DOMAIN images :
              \E r \in DOMAIN runs :
                  /\ runs[r].pc = "insert"
                  /\ images'[i].taskId = runs[r].taskId
                  /\ images'[i].resolution = Resolutions[runs[r].k]
                  /\ finalPath(runs[r].originalPath, images'[i].resolution, images'[i].md5)
                         \in DOMAIN outFiles ]_vars

\* C39 witness: after the run create started had completed, the file was
\* changed and a further run completed; the task holds the entries of that
\* run, each with its Image document, next to the documents of the first run.
C39_Witness ==
    \E r \in DirectRuns :
        LET id == runs[r].taskId
        IN /\ runs[r].pc = "done" /\ ~IsSet(runs[r].error)
           /\ tasks[id].status = COMPLETED
           /\ tasks[id].images = runs[r].processedImages
           /\ Len(tasks[id].images) = Len(Resolutions)
           /\ \A k \in DOMAIN tasks[id].images : HasRecord(images, tasks[id].images[k], id)
           /\ Cardinality(ImagesOfTask(id)) = 2 * Len(Resolutions)

====
